---------------------------- MODULE Spec2Model ----------------------------
(***************************************************************************)
(* A model of src/tools/diskdump/modules/diskdump.js (PCjs DiskDump).      *)
(*                                                                         *)
(* Three specifications share this module:                                 *)
(*   SpecSweep   the "--readall" catalog sweep of main(): readAllConfigs,  *)
(*               readAllDiskettes and its four tasks, with the files the   *)
(*               archive check writes, renames and deletes;                *)
(*   SpecIngest  readDir/readDirFiles: the recursive directory walk with   *)
(*               the shared nMaxFiles budget and the volume label;         *)
(*   SpecNorm    the line-ending replacement of readDirFiles applied to    *)
(*               bounded texts.                                            *)
(* The disk-image capability (DiskImage), the file system and the command  *)
(* line are the environment: their outcomes are drawn with \E.             *)
(***************************************************************************)
EXTENDS Integers, Sequences, FiniteSets, TLC

VARIABLES
    \* ---- catalog sweep (main, --readall) ----
    argv,         \* the task switches of the command line
    nConfigs,     \* asFiles.length: configuration documents found by glob
    iConfig,      \* index of the configuration document being read
    nDiskettes,   \* aDiskettes.length of the current configuration document
    iDiskette,    \* index of the diskette being processed
    pc,           \* position inside main / readAllDiskettes
    cur,          \* the diskette being processed (path kind, archive kind, ...)
    loc,          \* locals and diagnostics of the current readAllDiskettes call
    fs,           \* the files the sweep touches: path -> content
    cConfigs,     \* counters of the summary line
    cManifests,
    cFiles,
    \* ---- directory ingest (readDir, readDirFiles) ----
    args,         \* the arguments of readDir: sDir's base name, sLabel, ...
    nMaxFiles,    \* the module-level budget (line 24)
    stack,        \* one frame per active readDirFiles call, innermost last
    ipc,          \* "start", "walk", then "done" or "threw" (lines 122-125)
    aFileData,    \* what the outermost readDirFiles returned
    diskImage,    \* what readDir returned (di), or Null
    seen,         \* what the walk met so far (counts; not program state)
    \* ---- line endings (readDirFiles, lines 198-207) ----
    fileText,     \* the text of a known text file (data)
    fileTextOld,  \* the text before the last replacement
    nPasses       \* how often the replacement was applied

svars == <<argv, nConfigs, iConfig, nDiskettes, iDiskette, pc, cur, loc, fs,
           cConfigs, cManifests, cFiles>>

ivars == <<args, nMaxFiles, stack, ipc, aFileData, diskImage, seen>>

nvars == <<fileText, fileTextOld, nPasses>>

vars == <<svars, ivars, nvars>>

(***************************************************************************)
(* Bounds of the model.                                                    *)
(***************************************************************************)
MaxConfigs == 2
MaxDiskettes == 2
\* directory entries listed over a whole walk, and the largest nMax tried
MaxEntries == 3
MaxBudget == 2
\* the longest text whose line endings are replaced
MaxLen == 4

\* manifest.length, as far as the counters can tell: no file, or some
ManifestLengths == {0, 1}

(***************************************************************************)
(* Files.  A path is a pair <<stem, extension>>.  fs holds the files of    *)
(* the diskette being processed: its JSON (sFile), its archived image      *)
(* (sArchiveFile) and the two temporary files of Task #3.  sTempJSON and   *)
(* sTempIMG are the base name of the archive file with ".json" / ".img",   *)
(* relative to the working directory: they may exist before the diskette   *)
(* is processed, left there by an earlier diskette or an earlier run.      *)
(***************************************************************************)
SFilePath == <<"sFile", ".json">>
\* diskette.archive: "" when the entry declares none (lines 475-482)
DisketteArchives == {"", "folder", "psi"}
ArchiveExt(archive) ==
    IF archive = "" THEN ".img"
    ELSE IF archive = "folder" THEN "/"
    ELSE ".psi"
ArchiveFile(archive) == <<"sArchiveFile", ArchiveExt(archive)>>
\* (a variant that writes the temporary JSON in place of the diskette's JSON)
TempJSONPathInPlace(name) == SFilePath
\* lines 498-501 and 508; name is path.basename(sArchiveFile) up to its first "."
TempJSONPath(name) == <<name, ".json">>
TempIMGPath(name) == <<name, ".img">>
ArchiveName == "name"

ArchivePaths == {ArchiveFile(a) : a \in DisketteArchives}
Paths == {SFilePath, TempJSONPath(ArchiveName), TempIMGPath(ArchiveName)}
             \cup ArchivePaths

\* "orig":      the canonical JSON as the sweep found it
\* "rewritten": the canonical JSON rewritten from itself by Task #1
\* "arcjson":   the JSON serialised from this diskette's archived image
\* "archive":   the bytes of this diskette's archived image
\* "drift":     a rebuilt image whose bytes differ from the archived image
\* "stale...":  a temporary file that was there before this diskette
Absent == "absent"
Contents == {Absent, "orig", "rewritten", "arcjson", "stalejson",
             "archive", "drift", "staleimg"}

IsJSON(c) == c \in {"orig", "rewritten", "arcjson", "stalejson"}

\* What the environment does to one writeDisk call:
\*   "written"   the data is produced and written
\*   "nodata"    getJSON/getData yields nothing ("not written, no data")
\*   "error"     an exception before the old file is unlinked
\*   "ioerror"   writeFileSync throws after the old file was unlinked
WriteOutcomes == {"written", "nodata", "error", "ioerror"}

(***************************************************************************)
(* writeDisk(sFile, di, fLegacy, indent, fOverwrite), lines 303-332: every *)
(* exception is caught inside, so the caller only sees the file system.    *)
(***************************************************************************)
WriteDisk(f, path, data, fOverwrite, outcome) ==
    IF f[path] # Absent /\ ~fOverwrite THEN f
    ELSE IF outcome = "written" THEN [f EXCEPT ![path] = data]
    ELSE IF outcome = "ioerror" THEN [f EXCEPT ![path] = Absent]
    ELSE f

\* compareDisks(sDisk1, sDisk2), lines 42-50: readFile yields nothing for a
\* missing file, and then the result is false.
CompareDisks(f, sDisk1, sDisk2) ==
    /\ f[sDisk1] # Absent
    /\ f[sDisk2] # Absent
    /\ f[sDisk1] = f[sDisk2]

\* (variants of lines 517-523: the two branches exchanged; the test of the
\* warning left out; the test of the warning inverted)
FinalizeJSONSwapped(warning, rebuild) ==
    IF warning THEN "keep"
    ELSE IF rebuild THEN "unlink"
    ELSE "rename"
FinalizeJSONUnguarded(warning, rebuild) ==
    IF rebuild THEN "rename" ELSE "unlink"
FinalizeJSONInverted(warning, rebuild) ==
    IF ~warning THEN "keep"
    ELSE IF rebuild THEN "rename"
    ELSE "unlink"
\* lines 517-523: what happens to the temporary JSON once the check is over
FinalizeJSON(warning, rebuild) ==
    IF warning THEN "keep"
    ELSE IF rebuild THEN "rename"
    ELSE "unlink"

Tasks == {"rebuild", "checklisting", "checkarchive", "checkmanifests"}

\* json: diskette.path ends with ".json"; archive: diskette.archive
NoDiskette == [json |-> FALSE, archive |-> ""]
Diskettes == [json : BOOLEAN, archive : DisketteArchives]
NoFiles == [p \in Paths |-> Absent]

\* loaded:  readDisk returned a disk image for this diskette
\* ran:     the tasks whose block was entered for this diskette
\* warning: the local flag of Task #3; warned: the warning was printed
\* cmp:     the outcome of compareDisks, "none" when it was not called
\* t3:      "idle", "reading", then "skipped" (no archive image to check),
\*          "ignored" (the --ignore return) or "done" (lines 497-524 ran)
\* index:   whether Task #2 rewrote index.md
NoLocals ==
    [loaded |-> FALSE, ran |-> {}, warning |-> FALSE, warned |-> FALSE,
     cmp |-> "none", t3 |-> "idle", index |-> "untouched"]

(***************************************************************************)
(* Directory ingest: readDir (110-127) and readDirFiles (137-215).         *)
(*                                                                         *)
(* The directory tree is the environment: what a directory lists and what  *)
(* each entry is are drawn when the walk gets there.  File names and       *)
(* labels are strings; a text is a sequence of characters, "CR" and "LF"   *)
(* the two line-ending characters and "E9" a character above 7 bits.       *)
(***************************************************************************)
Null == "null"
PCJS_LABEL == "PCJS"
\* line 115: nMax || 256
DefaultMaxFiles == 256

Chars == {"CR", "LF", "a", "E9"}

\* sName.charAt(0) == '.' (line 181), for the file names of the model
FileNames == {".DS_Store", "README.md", "COMMAND.COM"}
StartsWithDot(sName) == sName \in {".DS_Store"}
\* isTextFile (91-98): the upper-cased name ends with one of asTextFileExts
IsTextFile(sFile) == sFile \in {"README.md"}

\* isASCII (76-83): no character with bit 7 set
IsASCII(data) == \A k \in 1..Len(data) : data[k] # "E9"

\* data.replace(/\n/g, "\r\n")
RECURSIVE ReplaceLF(_)
ReplaceLF(data) ==
    IF data = <<>> THEN <<>>
    ELSE IF Head(data) = "LF" THEN <<"CR", "LF">> \o ReplaceLF(Tail(data))
    ELSE <<Head(data)>> \o ReplaceLF(Tail(data))

\* data.replace(/\r+/g, "\r")
RECURSIVE ReplaceCRs(_)
ReplaceCRs(data) ==
    IF data = <<>> THEN <<>>
    ELSE IF Head(data) = "CR" /\ Len(data) > 1 /\ data[2] = "CR"
    THEN ReplaceCRs(Tail(data))
    ELSE <<Head(data)>> \o ReplaceCRs(Tail(data))

\* (the first replacement alone)
NormalizeExpandOnly(data) == ReplaceLF(data)
\* (the two replacements in the opposite order)
NormalizeCollapseFirst(data) == ReplaceLF(ReplaceCRs(data))
\* line 200
Normalize(data) == ReplaceCRs(ReplaceLF(data))

\* lines 199-205: only 7-bit text has its line endings replaced
NormalizeData(text) == IF IsASCII(text) THEN Normalize(text) ELSE text

\* new DataBuffer(string): the bytes of the text ("E9" takes two)
RECURSIVE ToBuffer(_)
ToBuffer(data) ==
    IF data = <<>> THEN <<>>
    ELSE IF Head(data) = "E9" THEN <<"C3", "A9">> \o ToBuffer(Tail(data))
    ELSE <<Head(data)>> \o ToBuffer(Tail(data))

\* line 113: if (!sLabel) sLabel = path.basename(sDir); "" is no label given
ResolveLabel(sLabel, sDirBase) == IF sLabel = "" THEN sDirBase ELSE sLabel

\* lines 151-155: the two special label strings
SpecialLabel(sLabel) ==
    IF sLabel = "none" THEN ""
    ELSE IF sLabel = "default" THEN PCJS_LABEL
    ELSE sLabel

\* lines 161-171: the label, if any, is the first file record
LabelFiles(sLabel) ==
    IF SpecialLabel(sLabel) # ""
    THEN << [name |-> SpecialLabel(sLabel), attr |-> "VOLUME", size |-> 0,
             data |-> <<>>, files |-> <<>>] >>
    ELSE <<>>

\* (a loop test that stops one entry late)
LoopContinuesLate(iFile, nFiles, budget) == iFile < nFiles /\ budget >= 0
\* line 173: iFile < asFiles.length && nMaxFiles > 0
LoopContinues(iFile, nFiles, budget) == iFile < nFiles /\ budget > 0

\* lines 192-210: the file record of a file whose content was read
FileRecord(sName, content, fNormalize) ==
    LET fText == fNormalize /\ IsTextFile(sName)
        data == IF fText
                THEN ToBuffer(NormalizeData(content))
                ELSE content
    IN  [name |-> sName, attr |-> "NONE", size |-> Len(data), data |-> data,
         files |-> <<>>]

\* line 194: if (!data) continue;  the empty string is no data, a buffer is
NoData(sName, content, fNormalize) ==
    fNormalize /\ IsTextFile(sName) /\ content = <<>>

\* the texts a file of the model may hold
FileTexts == {<<>>, <<"a", "LF">>, <<"E9">>}
DirBases == {"DISK", "none", "default"}
Labels == {"", "none", "default", "MYDISK"}

NoSeen == [listed |-> 0, skipped |-> 0, dirs |-> 0, failures |-> 0,
           diag |-> 0, readOK |-> 0]
NoArgs == [sDir |-> "DISK", sLabel |-> "", fNormalize |-> FALSE, nMax |-> 0]

\* the ingest part of the state while another specification runs
IngestIdle ==
    /\ args = NoArgs
    /\ nMaxFiles = 0
    /\ stack = <<>>
    /\ ipc = "idle"
    /\ aFileData = <<>>
    /\ diskImage = Null
    /\ seen = NoSeen

Top == stack[Len(stack)]
Frame(name, n) == [name |-> name, n |-> n, i |-> 0, aFileData |-> <<>>]

\* the loop of the innermost readDirFiles goes on to its next entry
\* (line 173: iFile++, nMaxFiles--)
Advance(record) ==
    /\ stack' = [stack EXCEPT ![Len(stack)] =
                    [@ EXCEPT !.i = @ + 1,
                              !.aFileData = @ \o record]]
    /\ nMaxFiles' = nMaxFiles - 1

Visiting == ipc = "walk" /\ LoopContinues(Top.i, Top.n, nMaxFiles)

(***************************************************************************)
(* readDir, lines 110-116, and the head of readDirFiles, lines 137-171:    *)
(* the label is resolved, the budget set, the directory listed (readdirSync*)
(* throws for a directory that cannot be listed: readDir returns null).    *)
(***************************************************************************)
ReadDir ==
    /\ UNCHANGED <<svars, nvars>>
    /\ ipc = "start"
    /\ \E listable \in BOOLEAN, n \in 0..MaxEntries :
         IF listable
         THEN /\ nMaxFiles' = IF args.nMax = 0 THEN DefaultMaxFiles ELSE args.nMax
              /\ stack' = << [Frame("", n) EXCEPT !.aFileData =
                                 LabelFiles(ResolveLabel(args.sLabel, args.sDir))] >>
              /\ seen' = [seen EXCEPT !.listed = n]
              /\ ipc' = "walk"
              /\ UNCHANGED <<aFileData, diskImage>>
         ELSE /\ n = 0
              /\ nMaxFiles' = IF args.nMax = 0 THEN DefaultMaxFiles ELSE args.nMax
              /\ seen' = [seen EXCEPT !.diag = @ + 1]
              /\ ipc' = "threw"
              /\ UNCHANGED <<stack, aFileData, diskImage>>
    /\ UNCHANGED args

\* lines 180-181: a name that begins with a period is passed over
VisitHidden ==
    /\ UNCHANGED <<svars, nvars>>
    /\ Visiting
    /\ \E sName \in FileNames :
         /\ StartsWithDot(sName)
         /\ Advance(<<>>)
    /\ seen' = [seen EXCEPT !.skipped = @ + 1]
    /\ UNCHANGED <<args, ipc, aFileData, diskImage>>

(***************************************************************************)
(* lines 182-212, a regular file: readFile yields the content or, after a  *)
(* diagnostic, nothing; no data, no record.                                *)
(***************************************************************************)
VisitFile ==
    /\ UNCHANGED <<svars, nvars>>
    /\ Visiting
    /\ \E sName \in FileNames, readable \in BOOLEAN, content \in FileTexts :
         /\ ~StartsWithDot(sName)
         /\ IF ~readable
            THEN /\ content = <<>>
                 /\ Advance(<<>>)
                 /\ seen' = [seen EXCEPT !.skipped = @ + 1, !.failures = @ + 1,
                                         !.diag = @ + 1]
            ELSE IF NoData(sName, content, args.fNormalize)
            THEN /\ Advance(<<>>)
                 /\ seen' = [seen EXCEPT !.skipped = @ + 1, !.readOK = @ + 1]
            ELSE /\ Advance(<< FileRecord(sName, content, args.fNormalize) >>)
                 /\ seen' = [seen EXCEPT !.readOK = @ + 1]
    /\ UNCHANGED <<args, ipc, aFileData, diskImage>>

\* lines 186-190: a subdirectory; readDirFiles is called for it, without label
VisitDir ==
    /\ UNCHANGED <<svars, nvars>>
    /\ Visiting
    /\ \E n \in 0..(MaxEntries - seen.listed) :
         /\ stack' = Append(stack, Frame("SUBDIR", n))
         /\ seen' = [seen EXCEPT !.listed = @ + n, !.dirs = @ + 1]
    /\ UNCHANGED <<args, nMaxFiles, ipc, aFileData, diskImage>>

(***************************************************************************)
(* line 184 (and line 140 in a subdirectory): statSync or readdirSync      *)
(* throws.  The only catch is readDir's, lines 122-125: it prints the      *)
(* error and readDir returns null.                                         *)
(***************************************************************************)
VisitThrows ==
    /\ UNCHANGED <<svars, nvars>>
    /\ Visiting
    /\ stack' = <<>>
    /\ ipc' = "threw"
    /\ seen' = [seen EXCEPT !.failures = @ + 1, !.diag = @ + 1]
    /\ UNCHANGED <<args, nMaxFiles, aFileData, diskImage>>

\* line 214 in a subdirectory, then lines 187-190 and 212 in its parent
ReturnDir ==
    /\ UNCHANGED <<svars, nvars>>
    /\ ipc = "walk"
    /\ Len(stack) > 1
    /\ ~LoopContinues(Top.i, Top.n, nMaxFiles)
    /\ LET parent == stack[Len(stack) - 1]
           record == [name |-> Top.name, attr |-> "SUBDIR", size |-> -1,
                      data |-> <<>>, files |-> Top.aFileData]
       IN  stack' = Append(SubSeq(stack, 1, Len(stack) - 2),
                           [parent EXCEPT !.i = @ + 1,
                                          !.aFileData = Append(@, record)])
    /\ nMaxFiles' = nMaxFiles - 1
    /\ UNCHANGED <<args, ipc, aFileData, diskImage, seen>>

\* line 214 at the top, then lines 117-126: buildDiskFromFiles may fail
Finish ==
    /\ UNCHANGED <<svars, nvars>>
    /\ ipc = "walk"
    /\ Len(stack) = 1
    /\ ~LoopContinues(Top.i, Top.n, nMaxFiles)
    /\ aFileData' = Top.aFileData
    /\ \E built \in BOOLEAN : diskImage' = IF built THEN "DiskImage" ELSE Null
    /\ stack' = <<>>
    /\ ipc' = "done"
    /\ UNCHANGED <<args, nMaxFiles, seen>>

IngestNext ==
    \/ ReadDir
    \/ VisitHidden
    \/ VisitFile
    \/ VisitDir
    \/ VisitThrows
    \/ ReturnDir
    \/ Finish

(***************************************************************************)
(* Line endings: lines 198-207 applied to a text, and to their own result. *)
(***************************************************************************)
NormIdle ==
    /\ fileText = <<>>
    /\ fileTextOld = <<>>
    /\ nPasses = 0

Texts == UNION {[1..n -> Chars] : n \in 0..MaxLen}

NormalizeText ==
    /\ UNCHANGED <<svars, ivars>>
    /\ nPasses < 2
    /\ fileTextOld' = fileText
    /\ fileText' = NormalizeData(fileText)
    /\ nPasses' = nPasses + 1

NormNext == NormalizeText

\* the variables no task of readAllDiskettes assigns
sweepPos == <<argv, nConfigs, iConfig, nDiskettes, iDiskette, cur, cConfigs>>

SweepTypeOK ==
    /\ argv \in [Tasks -> BOOLEAN]
    /\ nConfigs \in 0..MaxConfigs
    /\ iConfig \in 0..nConfigs
    /\ nDiskettes \in 0..MaxDiskettes
    /\ iDiskette \in 0..nDiskettes
    /\ pc \in {"sweep", "diskettes", "task1", "task2", "task3", "t3write",
               "t3compare", "t3final", "task4", "return", "done", "crashed"}
    /\ cur \in Diskettes
    /\ fs \in [Paths -> Contents]
    /\ cConfigs \in Nat /\ cManifests \in Nat /\ cFiles \in Nat

SweepInit ==
    /\ argv \in [Tasks -> BOOLEAN]
    /\ nConfigs \in 0..MaxConfigs
    /\ iConfig = 0
    /\ nDiskettes = 0
    /\ iDiskette = 0
    /\ pc = "sweep"
    /\ cur = NoDiskette
    /\ loc = NoLocals
    /\ fs = NoFiles
    /\ cConfigs = 0
    /\ cManifests = 0
    /\ cFiles = 0
    /\ IngestIdle
    /\ NormIdle

(***************************************************************************)
(* asFiles.forEach(readAllConfigs), lines 408-413: readJSON yields the     *)
(* library or, after a diagnostic, nothing.                                *)
(***************************************************************************)
ReadConfig ==
    /\ UNCHANGED <<ivars, nvars>>
    /\ pc = "sweep"
    /\ iConfig < nConfigs
    /\ \E library \in BOOLEAN :
         IF library
         THEN /\ \E n \in 0..MaxDiskettes : nDiskettes' = n
              /\ iDiskette' = 0
              /\ pc' = "diskettes"
              /\ UNCHANGED <<iConfig, cConfigs>>
         ELSE /\ cConfigs' = cConfigs + 1
              /\ iConfig' = iConfig + 1
              /\ UNCHANGED <<nDiskettes, iDiskette, pc>>
    /\ UNCHANGED <<argv, nConfigs, cur, loc, fs, cManifests, cFiles>>

\* lines 549-551: the diskettes of this document are done; cConfigs++
EndConfig ==
    /\ UNCHANGED <<ivars, nvars>>
    /\ pc = "diskettes"
    /\ iDiskette = nDiskettes
    /\ cConfigs' = cConfigs + 1
    /\ iConfig' = iConfig + 1
    /\ pc' = "sweep"
    /\ UNCHANGED <<argv, nConfigs, nDiskettes, iDiskette, cur, loc, fs,
                   cManifests, cFiles>>

\* line 553: the summary line, after the last configuration document
Summary ==
    /\ UNCHANGED <<ivars, nvars>>
    /\ pc = "sweep"
    /\ iConfig = nConfigs
    /\ pc' = "done"
    /\ UNCHANGED <<argv, nConfigs, iConfig, nDiskettes, iDiskette, cur, loc,
                   fs, cConfigs, cManifests, cFiles>>

(***************************************************************************)
(* aDiskettes.forEach(readAllDiskettes), lines 414-426: the next diskette  *)
(* and its files; readDisk yields the image or null, and null returns.     *)
(***************************************************************************)
ReadEntry ==
    /\ UNCHANGED <<ivars, nvars>>
    /\ pc = "diskettes"
    /\ iDiskette < nDiskettes
    /\ \E d \in Diskettes, archived \in BOOLEAN, di \in BOOLEAN,
          oldJSON \in {Absent, "stalejson"}, oldIMG \in {Absent, "staleimg"} :
         /\ cur' = d
         /\ fs' = [p \in Paths |->
                     IF p = SFilePath THEN "orig"
                     ELSE IF p \in ArchivePaths
                     THEN (IF archived /\ p = ArchiveFile(d.archive)
                           THEN "archive" ELSE Absent)
                     ELSE IF p = TempJSONPath(ArchiveName) THEN oldJSON
                     ELSE oldIMG]
         /\ loc' = [NoLocals EXCEPT !.loaded = di]
         /\ pc' = IF di THEN "task1" ELSE "return"
    /\ UNCHANGED <<argv, nConfigs, iConfig, nDiskettes, iDiskette,
                   cConfigs, cManifests, cFiles>>

\* the callback returns (normally) and forEach moves to the next diskette;
\* the locals go out of scope, and fs turns to the next diskette's files
Return ==
    /\ UNCHANGED <<ivars, nvars>>
    /\ pc = "return"
    /\ iDiskette' = iDiskette + 1
    /\ pc' = "diskettes"
    /\ cur' = NoDiskette
    /\ loc' = NoLocals
    /\ fs' = NoFiles
    /\ UNCHANGED <<argv, nConfigs, iConfig, nDiskettes,
                   cConfigs, cManifests, cFiles>>

(***************************************************************************)
(* Task #1, lines 431-435: with --rebuild, rewrite the JSON disk image.    *)
(***************************************************************************)
Task1 ==
    /\ UNCHANGED <<ivars, nvars>>
    /\ pc = "task1"
    /\ IF argv["rebuild"]
       THEN /\ loc' = [loc EXCEPT !.ran = @ \cup {"rebuild"}]
            /\ IF cur.json
               THEN \E o \in WriteOutcomes :
                        fs' = WriteDisk(fs, SFilePath, "rewritten", TRUE, o)
               ELSE fs' = fs
       ELSE UNCHANGED <<loc, fs>>
    /\ pc' = "task2"
    /\ UNCHANGED <<sweepPos, cManifests, cFiles>>

(***************************************************************************)
(* Task #2, lines 439-460: with --checklisting, bring the listing in       *)
(* index.md up to date.  An empty listing returns from the callback.       *)
(* readFile yields nothing when index.md cannot be read, and sIndex.match  *)
(* then throws.                                                            *)
(***************************************************************************)
Listings == {"throws", "empty", "listing"}
Indexes == {"missing", "unreadable", "nomatch", "same", "differs"}

Task2 ==
    /\ UNCHANGED <<ivars, nvars>>
    /\ pc = "task2"
    /\ IF argv["checklisting"]
       THEN \E sListing \in Listings, sIndex \in Indexes, written \in BOOLEAN :
              IF sListing = "throws"
              THEN /\ pc' = "crashed"
                   /\ loc' = [loc EXCEPT !.ran = @ \cup {"checklisting"}]
              ELSE IF sListing = "empty"
              THEN /\ pc' = "return"
                   /\ loc' = [loc EXCEPT !.ran = @ \cup {"checklisting"}]
              ELSE IF sIndex = "unreadable"
              THEN /\ pc' = "crashed"
                   /\ loc' = [loc EXCEPT !.ran = @ \cup {"checklisting"}]
              ELSE /\ pc' = "task3"
                   /\ loc' = [loc EXCEPT
                                !.ran = @ \cup {"checklisting"},
                                !.index = IF sIndex = "differs" /\ written
                                          THEN "updated" ELSE @]
       ELSE /\ pc' = "task3"
            /\ loc' = loc
    /\ UNCHANGED <<sweepPos, fs, cManifests, cFiles>>

(***************************************************************************)
(* Task #3, lines 468-496: with --checkarchive and a ".json" diskette,     *)
(* find the archived image and read it (readDisk, or readDir for a folder; *)
(* both catch their exceptions and yield null).  The --ignore match        *)
(* returns from the callback.                                              *)
(***************************************************************************)
Task3Read ==
    /\ UNCHANGED <<ivars, nvars>>
    /\ pc = "task3"
    /\ IF ~argv["checkarchive"]
       THEN /\ pc' = "task4"
            /\ loc' = loc
       ELSE IF ~cur.json
       THEN /\ pc' = "task4"
            /\ loc' = [loc EXCEPT !.ran = @ \cup {"checkarchive"}, !.t3 = "skipped"]
       ELSE \E ignored \in BOOLEAN, selected \in BOOLEAN, parsed \in BOOLEAN :
              LET diArchive == selected /\ parsed
                               /\ fs[ArchiveFile(cur.archive)] # Absent
              IN  /\ pc' = IF ignored THEN "return"
                           ELSE IF diArchive THEN "t3write"
                           ELSE "task4"
                  /\ loc' = [loc EXCEPT
                               !.ran = @ \cup {"checkarchive"},
                               !.t3 = IF ignored THEN "ignored"
                                      ELSE IF diArchive THEN "reading"
                                      ELSE "skipped"]
    /\ UNCHANGED <<sweepPos, fs, cManifests, cFiles>>

\* lines 497-503: the archived image, as JSON, goes to the temporary JSON
Task3WriteJSON ==
    /\ UNCHANGED <<ivars, nvars>>
    /\ pc = "t3write"
    /\ \E o \in WriteOutcomes :
         fs' = WriteDisk(fs, TempJSONPath(ArchiveName), "arcjson", TRUE, o)
    /\ pc' = "t3compare"
    /\ UNCHANGED <<sweepPos, loc, cManifests, cFiles>>

(***************************************************************************)
(* lines 504-516: only when the archive file name ends with ".img", the    *)
(* image is rebuilt from its JSON, written to the temporary binary and     *)
(* compared with the archived one.  getJSON and buildDiskFromJSON are      *)
(* called outside any try: an exception leaves the callback.               *)
(***************************************************************************)
\* the comparison made for every archive that is a file, ".psi" included
EndsWithIMGOrPSI(archive) == ArchiveExt(archive) # "/"

EndsWithIMG(archive) == ArchiveExt(archive) = ".img"

Task3Compare ==
    /\ UNCHANGED <<ivars, nvars>>
    /\ pc = "t3compare"
    /\ IF EndsWithIMG(cur.archive)
       THEN \E throws \in BOOLEAN, o \in WriteOutcomes, bytes \in {"archive", "drift"} :
              IF throws
              THEN /\ pc' = "crashed"
                   /\ UNCHANGED <<fs, loc>>
              ELSE LET sTempIMG == TempIMGPath(ArchiveName)
                       f1 == WriteDisk(fs, sTempIMG, bytes, TRUE, o)
                       equal == CompareDisks(f1, sTempIMG, ArchiveFile(cur.archive))
                   IN  /\ fs' = IF equal THEN [f1 EXCEPT ![sTempIMG] = Absent] ELSE f1
                       /\ loc' = [loc EXCEPT
                                    !.cmp = IF equal THEN "equal" ELSE "differ",
                                    !.warning = ~equal,
                                    !.warned = ~equal]
                       /\ pc' = "t3final"
       ELSE /\ pc' = "t3final"
            /\ UNCHANGED <<fs, loc>>
    /\ UNCHANGED <<sweepPos, cManifests, cFiles>>

(***************************************************************************)
(* lines 517-523: without a warning, the temporary JSON is renamed over    *)
(* the diskette's JSON (--rebuild) or unlinked.  renameSync and unlinkSync *)
(* throw when the temporary JSON does not exist.                           *)
(***************************************************************************)
Task3Final ==
    /\ UNCHANGED <<ivars, nvars>>
    /\ pc = "t3final"
    /\ LET sTempJSON == TempJSONPath(ArchiveName)
           todo == FinalizeJSON(loc.warning, argv["rebuild"])
       IN  IF todo = "keep"
           THEN /\ fs' = fs
                /\ pc' = "task4"
                /\ loc' = [loc EXCEPT !.t3 = "done"]
           ELSE IF fs[sTempJSON] = Absent
           THEN /\ fs' = fs
                /\ pc' = "crashed"
                /\ loc' = loc
           ELSE /\ fs' = IF todo = "rename"
                         THEN [p \in Paths |->
                                 IF p = SFilePath THEN fs[sTempJSON]
                                 ELSE IF p = sTempJSON THEN Absent
                                 ELSE fs[p]]
                         ELSE [fs EXCEPT ![sTempJSON] = Absent]
                /\ pc' = "task4"
                /\ loc' = [loc EXCEPT !.t3 = "done"]
    /\ UNCHANGED <<sweepPos, cManifests, cFiles>>

(***************************************************************************)
(* Task #4, lines 532-548: with --checkmanifests, the manifest of the      *)
(* diskette is printed and counted.  getFileManifest is called outside any *)
(* try.                                                                    *)
(***************************************************************************)
Task4 ==
    /\ UNCHANGED <<ivars, nvars>>
    /\ pc = "task4"
    /\ IF argv["checkmanifests"]
       THEN \E throws \in BOOLEAN, length \in ManifestLengths :
              IF throws
              THEN /\ pc' = "crashed"
                   /\ loc' = [loc EXCEPT !.ran = @ \cup {"checkmanifests"}]
                   /\ UNCHANGED <<cManifests, cFiles>>
              ELSE /\ pc' = "return"
                   /\ loc' = [loc EXCEPT !.ran = @ \cup {"checkmanifests"}]
                   /\ cFiles' = cFiles + length
                   /\ cManifests' = cManifests + 1
       ELSE /\ pc' = "return"
            /\ UNCHANGED <<loc, cManifests, cFiles>>
    /\ UNCHANGED <<sweepPos, fs>>

SweepNext ==
    \/ ReadConfig
    \/ EndConfig
    \/ Summary
    \/ ReadEntry
    \/ Task1
    \/ Task2
    \/ Task3Read
    \/ Task3WriteJSON
    \/ Task3Compare
    \/ Task3Final
    \/ Task4
    \/ Return

SpecSweep == SweepInit /\ [][SweepNext]_vars

\* the sweep part of the state while another specification runs
SweepIdle ==
    /\ argv = [t \in Tasks |-> FALSE]
    /\ nConfigs = 0
    /\ iConfig = 0
    /\ nDiskettes = 0
    /\ iDiskette = 0
    /\ pc = "idle"
    /\ cur = NoDiskette
    /\ loc = NoLocals
    /\ fs = NoFiles
    /\ cConfigs = 0
    /\ cManifests = 0
    /\ cFiles = 0

IngestStart ==
    /\ nMaxFiles = 0
    /\ stack = <<>>
    /\ ipc = "start"
    /\ aFileData = <<>>
    /\ diskImage = Null
    /\ seen = NoSeen

\* readDir for a directory tree of any shape, with and without a label
IngestInit ==
    /\ SweepIdle
    /\ NormIdle
    /\ IngestStart
    /\ args \in [sDir : {"DISK"}, sLabel : {"", "none"}, fNormalize : BOOLEAN,
                 nMax : 0..MaxBudget]

SpecIngest == IngestInit /\ [][IngestNext]_vars

\* readDir for every label and every base name of the directory
LabelInit ==
    /\ SweepIdle
    /\ NormIdle
    /\ IngestStart
    /\ args \in [sDir : DirBases, sLabel : Labels, fNormalize : {FALSE},
                 nMax : {1}]

SpecLabel == LabelInit /\ [][IngestNext]_vars

\* the replacement of line endings for every text up to MaxLen characters
NormInit ==
    /\ SweepIdle
    /\ IngestIdle
    /\ fileText \in Texts
    /\ fileTextOld = <<>>
    /\ nPasses = 0

SpecNorm == NormInit /\ [][NormNext]_vars

(***************************************************************************)
(* Properties of the catalog sweep.                                        *)
(***************************************************************************)
sTempJSON == TempJSONPath(ArchiveName)
sTempIMG == TempIMGPath(ArchiveName)

\* the content of a temporary JSON, as opposed to the diskette's own JSON
IsTempJSON(c) == c \in {"arcjson", "stalejson"}
\* lines 497-524 ran to their end for the current diskette
Task3Done == loc.t3 = "done"
\* a temporary file written for the current diskette is still there
CreatedTempRemains ==
    fs[sTempJSON] = "arcjson" \/ fs[sTempIMG] \in {"archive", "drift"}

\* C1: once Task #3 has run for a diskette whose rebuilt temporary binary
\* compared equal to the archived binary, the temporary binary is gone, and
\* the temporary JSON has been renamed over the diskette's JSON with
\* --rebuild and deleted without it.
C1_EqualReconciled ==
    (Task3Done /\ loc.cmp = "equal") =>
        /\ fs[sTempIMG] = Absent
        /\ fs[sTempJSON] = Absent
        /\ IF argv["rebuild"] THEN IsTempJSON(fs[SFilePath])
                              ELSE fs[SFilePath] = "orig"

C1_Witness ==
    /\ Task3Done /\ loc.cmp = "equal" /\ argv["rebuild"]
    /\ fs[SFilePath] = "arcjson"
    /\ pc = "return"

\* C2 as stated: after a mismatch with --rebuild the warning is printed and
\* the temporary JSON is still renamed over the diskette's JSON.
C2_MismatchPromoted ==
    (Task3Done /\ loc.cmp = "differ" /\ argv["rebuild"]) =>
        (loc.warned /\ IsTempJSON(fs[SFilePath]))

\* C2 as amended: after a mismatch with --rebuild the warning is printed and
\* the temporary JSON is not renamed over the diskette's JSON.
C2_MismatchNotPromoted ==
    (Task3Done /\ loc.cmp = "differ" /\ argv["rebuild"]) =>
        (loc.warned /\ ~IsTempJSON(fs[SFilePath]))

C2_Witness ==
    /\ Task3Done /\ loc.cmp = "differ" /\ argv["rebuild"] /\ loc.warned
    /\ fs[SFilePath] = "rewritten"
    /\ fs[sTempJSON] = "arcjson"
    /\ pc = "return"

\* C3: after a mismatch without --rebuild the diskette's JSON exists with
\* the content it had before the diskette was processed.
C3_DryRunUntouched ==
    (Task3Done /\ loc.cmp = "differ" /\ ~argv["rebuild"]) =>
        fs[SFilePath] = "orig"

C3_Witness ==
    /\ Task3Done /\ loc.cmp = "differ" /\ ~argv["rebuild"]
    /\ fs[sTempJSON] = "arcjson" /\ fs[sTempIMG] = "drift"
    /\ pc = "return"

\* the diskettes and configuration documents not reached when main ends
EntriesLeft ==
    IF pc = "crashed" THEN nDiskettes - (iDiskette + 1) ELSE nDiskettes - iDiskette
ConfigsLeft ==
    IF pc = "crashed" THEN nConfigs - (iConfig + 1) ELSE nConfigs - iConfig

\* C4: whatever fails while one diskette is processed, when the sweep ends
\* every diskette and configuration document after it has been processed.
C4_EntryIsolation ==
    (pc \in {"done", "crashed"}) => (EntriesLeft = 0 /\ ConfigsLeft = 0)

\* C5: when the callback returns for a diskette that loaded, every task
\* requested on the command line has been run for it.
C5_TaskIndependence ==
    (pc = "return" /\ loc.loaded) =>
        \A t \in Tasks : argv[t] => t \in loc.ran

RawBinary == cur.archive = ""
DirectoryStyle == cur.archive = "folder"
\* Task #3 has reached lines 517-523 for the current diskette
AtFinal == pc = "t3final"
\* the step of lines 517-523 that renames or unlinks the temporary JSON
Reconciles == AtFinal /\ fs' # fs

\* C11 as stated: compareDisks is not called exactly when the archived
\* artifact is a directory, and for a raw binary or a container-format file
\* the temporary JSON is renamed or unlinked only after compareDisks found
\* the rebuilt binary equal.
C11_ComparedUnlessDirectory ==
    /\ [](AtFinal => (loc.cmp = "none" <=> DirectoryStyle))
    /\ [][(Reconciles /\ ~DirectoryStyle) => loc.cmp = "equal"]_vars

\* C11 as amended: compareDisks is not called exactly when the archived
\* artifact is not a raw binary image (a directory or a container-format
\* file), and for a raw binary image the temporary JSON is renamed or
\* unlinked only after compareDisks found the rebuilt binary equal.
C11_ComparedIfRawBinary ==
    /\ [](AtFinal => (loc.cmp = "none" <=> ~RawBinary))
    /\ [][(Reconciles /\ RawBinary) => loc.cmp = "equal"]_vars

\* a container-format archive reconciled with --rebuild, never compared
C11_Witness ==
    /\ Task3Done /\ cur.archive = "psi" /\ loc.cmp = "none"
    /\ argv["rebuild"]
    /\ fs[SFilePath] = "arcjson" /\ fs[sTempJSON] = Absent

(***************************************************************************)
(* Properties of the directory ingest.                                     *)
(***************************************************************************)
\* nMax || 256 (line 115): the configured maximum
Maximum == IF args.nMax = 0 THEN DefaultMaxFiles ELSE args.nMax

\* readDirFiles returned its list to readDir
Ingested == ipc = "done"

\* the file records of a list, those of its subdirectories included
RECURSIVE CountRecords(_)
CountRecords(files) ==
    IF files = <<>> THEN 0
    ELSE 1 + CountRecords(Head(files).files) + CountRecords(Tail(files))

\* the same, regular files only
RECURSIVE CountFiles(_)
CountFiles(files) ==
    IF files = <<>> THEN 0
    ELSE (IF Head(files).attr = "NONE" THEN 1 ELSE 0)
         + CountFiles(Head(files).files) + CountFiles(Tail(files))

VolumeLabels(files) == {k \in 1..Len(files) : files[k].attr = "VOLUME"}

\* C6 as stated: a tree with more entries than the maximum yields exactly
\* `maximum` file records, counted over all nesting levels.
C6_ExactlyMaximum ==
    (Ingested /\ seen.listed > Maximum) => CountRecords(aFileData) = Maximum

\* C6 as amended: the walk yields at most `maximum` records of regular
\* files over all nesting levels, and exactly `maximum` of them for a tree
\* with more entries that is one directory of files which each yield a
\* record (nothing hidden, unreadable or without data).
C6_AtMostMaximumFiles ==
    Ingested =>
        /\ CountFiles(aFileData) <= Maximum
        /\ (seen.listed > Maximum /\ seen.skipped = 0 /\ seen.dirs = 0)
               => CountFiles(aFileData) = Maximum

C6_Witness ==
    /\ Ingested
    /\ seen.listed > Maximum
    /\ seen.dirs > 0
    /\ CountFiles(aFileData) = Maximum
    /\ CountRecords(aFileData) > Maximum

\* the top-level list, while it is built and once it is returned
TopLevel == IF ipc = "walk" THEN stack[1].aFileData ELSE aFileData

\* C7: label "none" gives no label record; "default" gives one, named with
\* the built-in label; any other label gives one with that name; and with
\* no label given the list starts with one label record named with the
\* base name of the directory.
C7_LabelResolution ==
    (ipc = "walk" \/ Ingested) =>
        LET labels == VolumeLabels(TopLevel)
            name == IF args.sLabel = "" THEN args.sDir
                    ELSE IF args.sLabel = "default" THEN PCJS_LABEL
                    ELSE args.sLabel
        IN  IF args.sLabel = "none" THEN labels = {}
            ELSE labels = {1} /\ TopLevel[1].name = name

\* C8: for a 7-bit text, replacing the line endings of the result of the
\* replacement changes nothing, and a text whose line endings are all CR+LF
\* is not changed by the replacement.
AllCRLF(t) ==
    \A k \in 1..Len(t) :
        /\ t[k] = "LF" => (k > 1 /\ t[k - 1] = "CR")
        /\ t[k] = "CR" => (k < Len(t) /\ t[k + 1] = "LF")

C8_Idempotent ==
    (nPasses >= 1 /\ IsASCII(fileTextOld)) =>
        /\ nPasses = 2 => fileText = fileTextOld
        /\ AllCRLF(fileTextOld) => fileText = fileTextOld

C8_Witness ==
    /\ nPasses = 2
    /\ fileText = <<"CR", "LF", "a", "CR", "LF">>
    /\ fileTextOld = fileText

\* every LF of the text comes after exactly one CR
LFAfterOneCR(t) ==
    \A k \in 1..Len(t) :
        t[k] = "LF" => /\ k > 1 /\ t[k - 1] = "CR"
                       /\ k > 2 => t[k - 2] # "CR"
\* no two CR of the text are adjacent
NoCRRun(t) == \A k \in 1..(Len(t) - 1) : ~(t[k] = "CR" /\ t[k + 1] = "CR")

\* C12 as stated: the replacement of line endings in a 7-bit text gives the
\* text with every run of CR collapsed into one CR first and every LF
\* expanded into CR+LF afterwards, and in the result every line ending is
\* CR+LF.
C12_CollapseThenExpand ==
    (nPasses >= 1 /\ IsASCII(fileTextOld)) =>
        /\ fileText = ReplaceLF(ReplaceCRs(fileTextOld))
        /\ AllCRLF(fileText)

\* C12 as amended: the replacement of line endings in a 7-bit text gives the
\* text with every LF expanded into CR+LF first and every run of CR
\* collapsed into one CR afterwards; in the result every LF comes after
\* exactly one CR and no two CR are adjacent (a CR that no LF follows stays).
C12_ExpandThenCollapse ==
    (nPasses >= 1 /\ IsASCII(fileTextOld)) =>
        /\ fileText = ReplaceCRs(ReplaceLF(fileTextOld))
        /\ LFAfterOneCR(fileText)
        /\ NoCRRun(fileText)

\* a text with CR+LF endings and a lone CR, after one replacement
C12_Witness ==
    /\ nPasses = 1
    /\ fileTextOld = <<"a", "CR", "CR", "LF">>
    /\ fileText = <<"a", "CR", "LF">>

\* C9: a file that cannot be read or inspected is reported and dropped, and
\* the walk goes on: readDirFiles still returns its list.
C9_ReadFailurePolicy ==
    (ipc \in {"done", "threw"} /\ seen.failures > 0) =>
        (Ingested /\ seen.diag >= seen.failures)

\* size == data.length in every record of a regular file of the list
RECURSIVE SizesMatch(_)
SizesMatch(files) ==
    \A k \in 1..Len(files) :
        IF files[k].attr = "SUBDIR" THEN SizesMatch(files[k].files)
        ELSE files[k].attr = "NONE" => files[k].size = Len(files[k].data)

\* C13: every regular file whose name does not begin with a period and whose
\* content readFile returned without error has exactly one record in the
\* list readDirFiles returns, of a size equal to the length of its data,
\* empty files included, with and without fNormalize.
C13_IngestCompleteness ==
    Ingested =>
        /\ CountFiles(aFileData) = seen.readOK
        /\ SizesMatch(aFileData)

====
